---- MODULE Spec2Model ----
(***************************************************************************)
(* State-machine model of webpushkit: the PushNotificationManager of       *)
(* src/src/main.ts, the device-identity, outside helper (deviceId.ts) and the       *)
(* platform and backend it talks to.                                       *)
(*                                                                         *)
(* Every public method call occupies a call slot.  An async method is cut  *)
(* at its awaits: one action per stretch of code between two suspension    *)
(* points, so that overlapping calls interleave exactly where the event    *)
(* loop lets them.  The platform (service worker, push manager, storage)   *)
(* and the backend answer nondeterministically.                            *)
(***************************************************************************)
EXTENDS Integers, Sequences, FiniteSets, TLC

\* ------------------------------------------------------------------ bounds
MaxIds == 2
MaxListLen == 2

\* --------------------------------------------------------------- constants
NoId == 0
Ids == 1..MaxIds
\* the call slots of the manager's methods; under Spec the calls are made
\* one after the other (AllIdle), which keeps them in the first slot
Calls == {1, 2}

\* deviceIds arguments: every list of identifiers up to MaxListLen long
IdLists == UNION {[1..n -> Ids] : n \in 0..MaxListLen}

\* unsubscribe(deviceIds?: string[]): the argument is omitted or a list
UnsubArgs == {[given |-> FALSE, ids |-> <<>>]} \cup {[given |-> TRUE, ids |-> l] : l \in IdLists}
NoArg == [given |-> FALSE, ids |-> <<>>]

\* HTTP statuses the backend answers with, and Response.statusText
Statuses == {200, 207, 404, 500}
statusText(s) ==
  CASE s = 200 -> "OK"
    [] s = 207 -> "Multi-Status"
    [] s = 404 -> "Not Found"
    [] s = 500 -> "Internal Server Error"

\* the response.ok test left out: every answered request counts as a success
responseOkUnchecked(s) == TRUE

\* Response.ok: the status is in the range 200-299
responseOk(s) == s >= 200 /\ s <= 299

\* What a fetch() settles with: a rejection (network error), or a response
\* with a status whose body does or does not parse as JSON.
NoResp == [kind |-> "none", status |-> 0, json |-> FALSE]
Responses ==
  {[kind |-> "net", status |-> 0, json |-> FALSE]}
    \cup {[kind |-> "http", status |-> s, json |-> TRUE] : s \in Statuses}
    \cup {[kind |-> "http", status |-> 200, json |-> FALSE]}

\* The shapes PushSubscription.toJSON() can have: both keys, a keys member
\* without auth, no keys member.
SubShapes == {"full", "noAuth", "noKeys"}

\* Results of a call as its caller sees them
NoResult == [kind |-> "none"]
Value(v) == [kind |-> "value", value |-> v]
Throw(e) == [kind |-> "throw", error |-> e]

VARIABLES
  stored,           \* localStorage["push_device_id"], NoId when absent
  storageOK,        \* localStorage can be accessed without throwing
  deviceId,         \* this.deviceId of the manager
  hasServiceWorker, \* "serviceWorker" in navigator
  hasPushManager,   \* "PushManager" in window
  swActive,         \* a service worker is active: serviceWorker.ready resolves
  browserSub,       \* the push manager's subscription: "none" or its shape
  records,          \* device ids the backend holds a subscription for
  hasNotification,  \* "Notification" in window
  permission,       \* Notification.permission
  config,           \* the PushNotificationConfig given to the constructor
  op, pc, arg, req, resp, result, \* per call slot
  io,               \* per call slot: the platform and network calls it made
  uuid,             \* the characters of the last generateUUID() result
  decoded,          \* the last urlBase64ToUint8Array() call, step by step
  ev                \* per event slot of the service worker: the event handled

vars == <<stored, storageOK, deviceId, hasServiceWorker, hasPushManager,
          swActive, browserSub, records, hasNotification, permission, config,
          op, pc, arg, req, resp, result, io, uuid, decoded, ev>>

Range(l) == {l[i] : i \in 1..Len(l)}

\* the longest server key handed to urlBase64ToUint8Array()
MaxKeyLen == 4
\* the characters keys are made of: a letter, the two URL-safe characters, a
\* padding character, a space and a character outside every base64 alphabet
KeyChars == {"B", "-", "_", "=", " ", "*"}
Keys == UNION {[1..n -> KeyChars] : n \in 0..MaxKeyLen}
\* no urlBase64ToUint8Array() call was made yet
NoKey == [step |-> "none"]
\* a key handed to urlBase64ToUint8Array(), the call not yet made
Given(key) == [step |-> "given", input |-> key]
\* the standard base64 alphabet, in value order
Alphabet ==
  << "A", "B", "C", "D", "E", "F", "G", "H", "I", "J", "K", "L", "M",
     "N", "O", "P", "Q", "R", "S", "T", "U", "V", "W", "X", "Y", "Z",
     "a", "b", "c", "d", "e", "f", "g", "h", "i", "j", "k", "l", "m",
     "n", "o", "p", "q", "r", "s", "t", "u", "v", "w", "x", "y", "z",
     "0", "1", "2", "3", "4", "5", "6", "7", "8", "9", "+", "/" >>
\* ASCII whitespace, as far as keys can hold it
Whitespace == {" "}

\* ------------------------------------------------------- device identity
\* the stored item is not looked at: every call generates and persists anew
getOrCreateDeviceIdAlwaysNew(st, ok, u) ==
  [ret |-> u, stored |-> IF ok THEN u ELSE st]

\* the catch block returning the (unset) local variable instead of a new id
getOrCreateDeviceIdNoFallback(st, ok, u) ==
  IF ~ok THEN [ret |-> NoId, stored |-> st]
  ELSE IF st = NoId THEN [ret |-> u, stored |-> u]
  ELSE [ret |-> st, stored |-> st]

\* getOrCreateDeviceId(): st is the stored item, ok whether localStorage
\* works, u the value generateUUID() would produce.  Yields the returned
\* identifier and the stored item afterwards.  A throwing localStorage is
\* caught: a generated identifier is returned and nothing is persisted.
getOrCreateDeviceId(st, ok, u) ==
  IF ~ok THEN [ret |-> u, stored |-> st]
  ELSE IF st = NoId THEN [ret |-> u, stored |-> u]
  ELSE [ret |-> st, stored |-> st]

\* ------------------------------------------------------- generateUUID()
\* (Math.random() * 16) | 0 is one of RandomRange values, from 0 on
RandomRange == 16
HexDigits == <<"0", "1", "2", "3", "4", "5", "6", "7",
               "8", "9", "a", "b", "c", "d", "e", "f">>
\* v.toString(16) of a value below 16
toString16(v) == HexDigits[v + 1]

\* "xxxxxxxx-xxxx-4xxx-yxxx-xxxxxxxxxxxx", character by character
Xs(n) == [i \in 1..n |-> "x"]
Template ==
  Xs(8) \o <<"-">> \o Xs(4) \o <<"-", "4">> \o Xs(3) \o <<"-", "y">> \o Xs(3)
    \o <<"-">> \o Xs(12)

\* r | 0x8 where (r & 0x3) | 0x8 is meant: bit 3 set, the low bits kept
replaceCharOr8(ch, r) ==
  IF ch = "x" THEN toString16(r)
  ELSE toString16(IF r >= 8 THEN r ELSE r + 8)

\* The replace callback for a matched character ch with the drawn value r:
\* const v = c === "x" ? r : (r & 0x3) | 0x8.  r & 0x3 keeps the two low
\* bits (r % 4); | 0x8 sets bit 3, which they leave clear (+ 8).
replaceChar(ch, r) ==
  IF ch = "x" THEN toString16(r)
  ELSE toString16((r % 4) + 8)

\* The fallback of generateUUID(): every x and y of the template is
\* replaced, every other character kept.  rs[i] is the value drawn for
\* the character at position i.
generateUUIDFallback(rs) ==
  [i \in 1..Len(Template) |->
     IF Template[i] \in {"x", "y"} THEN replaceChar(Template[i], rs[i])
     ELSE Template[i]]

\* what crypto.randomUUID() returns where the platform has it
NativeUUID == <<"crypto.randomUUID()">>

\* The sequences of draws: from a seed on, in steps, so that every
\* position sees every value.
Draws(seed, step) == [i \in 1..Len(Template) |-> (seed + i * step) % RandomRange]

\* ---------------------------------------------------- the service worker
\* the event slots of the service worker
Events == {1, 2}
NoEvent == [kind |-> "none"]

\* JavaScript values as the worker sees them
JsUndefined == [type |-> "undefined"]
JsNull == [type |-> "null"]
Str(x) == [type |-> "string", s |-> x]
Bool(x) == [type |-> "boolean", b |-> x]
Num(x) == [type |-> "number", n |-> x]
Arr(x) == [type |-> "array", items |-> x]
\* an object as far as its url member goes
Obj(u) == [type |-> "object", url |-> u]
EmptyObject == Obj(JsUndefined)

\* ToBoolean: undefined, null, "", false and 0 are falsy
truthy(v) ==
  CASE v.type = "undefined" -> FALSE
    [] v.type = "null" -> FALSE
    [] v.type = "string" -> v.s # ""
    [] v.type = "boolean" -> v.b
    [] v.type = "number" -> v.n # 0
    [] OTHER -> TRUE

\* a ?? d: only undefined and null give way to the default
orElseNullish(v, d) == IF v.type \in {"undefined", "null"} THEN d ELSE v
\* a || d
orElse(v, d) == IF truthy(v) THEN v ELSE d

\* the members of a push message the worker reads
Fields == {"title", "body", "icon", "badge", "image", "tag", "requireInteraction",
           "silent", "renotify", "timestamp", "vibrate", "lang", "dir", "data",
           "actions"}
\* {}: every member undefined
NoFields == [f \in Fields |-> JsUndefined]

\* values a member can have, falsy ones among them
Menu(f) ==
  CASE f \in {"title", "body", "icon", "badge", "image", "tag", "lang", "dir"} ->
         {Str(""), Str(f)}
    [] f \in {"requireInteraction", "silent", "renotify"} -> {Bool(FALSE), Bool(TRUE)}
    [] f \in {"timestamp", "vibrate"} -> {Num(0), Num(200)}
    [] f = "data" -> {JsNull, EmptyObject, Obj(Str("/inbox"))}
    [] f = "actions" -> {Arr(<<>>), Arr(<<"open">>)}

\* a message with every member set to a truthy value
FullMessage ==
  [f \in Fields |->
     CASE f \in {"requireInteraction", "silent", "renotify"} -> Bool(TRUE)
       [] f \in {"timestamp", "vibrate"} -> Num(200)
       [] f = "data" -> Obj(Str("/inbox"))
       [] f = "actions" -> Arr(<<"open">>)
       [] OTHER -> Str(f)]

\* the messages: the empty one, the full one, and every message with one
\* member set
Messages ==
  {NoFields, FullMessage}
    \cup UNION {{[NoFields EXCEPT ![f] = v] : v \in Menu(f)} : f \in Fields}

\* event.data of a push event: absent, text that is not JSON, or JSON
Bodies ==
  {[kind |-> "absent", fields |-> NoFields], [kind |-> "text", fields |-> NoFields]}
    \cup {[kind |-> "json", fields |-> m] : m \in Messages}

\* Date.now()
MaxTime == 2
Times == 1..MaxTime

\* the options built with ?? in place of ||
pushOptionsNullish(data, now) ==
  [title |-> orElseNullish(data.title, Str("Notification")),
   body |-> orElseNullish(data.body, Str("")),
   icon |-> orElseNullish(data.icon, Str("/icon-192x192.png")),
   badge |-> orElseNullish(data.badge, Str("/badge-72x72.png")),
   image |-> data.image,
   tag |-> data.tag,
   requireInteraction |-> orElseNullish(data.requireInteraction, Bool(FALSE)),
   silent |-> orElseNullish(data.silent, Bool(FALSE)),
   renotify |-> orElseNullish(data.renotify, Bool(FALSE)),
   timestamp |-> orElseNullish(data.timestamp, Num(now)),
   vibrate |-> data.vibrate,
   lang |-> orElseNullish(data.lang, Str("en")),
   dir |-> orElseNullish(data.dir, Str("auto")),
   data |-> orElseNullish(data.data, EmptyObject),
   actions |-> orElseNullish(data.actions, Arr(<<>>))]

\* const options = {...}: the descriptor built from the parsed message
pushOptions(data, now) ==
  [title |-> orElse(data.title, Str("Notification")),
   body |-> orElse(data.body, Str("")),
   icon |-> orElse(data.icon, Str("/icon-192x192.png")),
   badge |-> orElse(data.badge, Str("/badge-72x72.png")),
   image |-> data.image,
   tag |-> data.tag,
   requireInteraction |-> orElse(data.requireInteraction, Bool(FALSE)),
   silent |-> orElse(data.silent, Bool(FALSE)),
   renotify |-> orElse(data.renotify, Bool(FALSE)),
   timestamp |-> orElse(data.timestamp, Num(now)),
   vibrate |-> data.vibrate,
   lang |-> orElse(data.lang, Str("en")),
   dir |-> orElse(data.dir, Str("auto")),
   data |-> orElse(data.data, EmptyObject),
   actions |-> orElse(data.actions, Arr(<<>>))]

\* the calls a handler makes on the platform
ShowNotification(title, options) ==
  [call |-> "showNotification", title |-> title, options |-> options]
Close == [call |-> "close"]
OpenWindow(url) == [call |-> "openWindow", url |-> url]

\* An event being handled.  calls: the platform calls of its handler;
\* pending: the promise of its last call has not settled; phase: "extended"
\* while a waitUntil() promise keeps the event alive, "finished" once the
\* platform takes the handler as done, "threw" when the handler threw.
Handling(kind, input, now, calls, pending, phase) ==
  [kind |-> kind, input |-> input, now |-> now, calls |-> calls,
   pending |-> pending, phase |-> phase]

\* a new event takes the first free slot
FreeEvent(e) == ev[e] = NoEvent /\ \A d \in Events : d < e => ev[d] # NoEvent

\* everything but the worker's events: the page and its manager
manager == <<stored, storageOK, deviceId, hasServiceWorker, hasPushManager,
             swActive, browserSub, records, hasNotification, permission, config,
             op, pc, arg, req, resp, result, io, uuid, decoded>>

\* the parse wrapped in a try block that falls back to {}
PushEventForgiving(e, body, now) ==
  /\ FreeEvent(e)
  /\ ev' = [ev EXCEPT ![e] =
       LET data == IF body.kind = "json" THEN body.fields ELSE NoFields
           options == pushOptions(data, now)
       IN Handling("push", body, now,
                   <<ShowNotification(options.title, options)>>, TRUE, "extended")]
  /\ UNCHANGED manager

\* The push listener.  event.data.json() throws on a body that is not
\* JSON, which ends the handler before anything is shown; otherwise the
\* options are built, showNotification() is called and its promise is
\* handed to event.waitUntil().
PushEvent(e, body, now) ==
  /\ FreeEvent(e)
  /\ ev' = [ev EXCEPT ![e] =
       IF body.kind = "text"
         THEN Handling("push", body, now, <<>>, FALSE, "threw")
         ELSE LET data == IF body.kind = "absent" THEN NoFields ELSE body.fields
                  options == pushOptions(data, now)
              IN Handling("push", body, now,
                          <<ShowNotification(options.title, options)>>, TRUE, "extended")]
  /\ UNCHANGED manager

\* const data = event.notification.data || {}; data.url || "/"
urlToOpen(ndata) == orElse(orElse(ndata, EmptyObject).url, Str("/"))

\* the data a clicked notification carries
NotificationData == {JsUndefined, JsNull, EmptyObject, Obj(Str("")), Obj(Str("/inbox"))}

\* the open request made without event.waitUntil()
NotificationClickNoWaitUntil(e, ndata) ==
  /\ FreeEvent(e)
  /\ ev' = [ev EXCEPT ![e] =
       Handling("notificationclick", ndata, 0,
                <<Close, OpenWindow(urlToOpen(ndata))>>, TRUE, "finished")]
  /\ UNCHANGED manager

\* The notificationclick listener: the notification is closed, the URL is
\* taken from its data, clients.openWindow() is called and its promise is
\* handed to event.waitUntil().
NotificationClick(e, ndata) ==
  /\ FreeEvent(e)
  /\ ev' = [ev EXCEPT ![e] =
       Handling("notificationclick", ndata, 0,
                <<Close, OpenWindow(urlToOpen(ndata))>>, TRUE, "extended")]
  /\ UNCHANGED manager

\* The promise handed to waitUntil() settles (fulfilled or rejected): the
\* event's lifetime ends.
PromiseSettles(e) ==
  /\ ev[e] # NoEvent
  /\ ev[e].pending
  /\ ev' = [ev EXCEPT ![e] = [@ EXCEPT !.pending = FALSE, !.phase = "finished"]]
  /\ UNCHANGED manager

\* the platform drops an event whose handling is over
EventOver(e) ==
  /\ ev[e] # NoEvent
  /\ ev[e].phase \in {"finished", "threw"}
  /\ ~ev[e].pending
  /\ ev' = [ev EXCEPT ![e] = NoEvent]
  /\ UNCHANGED manager

\* ------------------------------------------------------------ the manager
\* an empty explicit list falls back to the own identifier as well
idsToUnsubscribeEmptyIsOwn(a, dev) ==
  IF a.given /\ Len(a.ids) > 0 THEN a.ids ELSE <<dev>>

\* const idsToUnsubscribe = deviceIds || [this.deviceId]
idsToUnsubscribe(a, dev) == IF a.given THEN a.ids ELSE <<dev>>

\* the includes() test left out: storage is cleared only without an argument
removesDeviceIdOnlyWhenOmitted(a, dev) == ~a.given

\* if (!deviceIds || deviceIds.includes(this.deviceId)) removeItem(...)
removesDeviceId(a, dev) == ~a.given \/ dev \in Range(a.ids)

\* if (!subscriptionJson.keys) throw new Error("Subscription keys are missing")
keysMissing(shape) == shape = "noKeys"

\* The body of the subscribe request: subscriptionData, of which the model
\* keeps the device_id and which credential keys the JSON text carries.
subscriptionData(shape, dev) ==
  [endpoint |-> "subscribe", device_id |-> dev, p256dh |-> TRUE, auth |-> shape = "full"]

unsubscribeBody(ids) == [endpoint |-> "unsubscribe", device_ids |-> ids]

notifyBody(ids) == [endpoint |-> "notify", device_ids |-> ids]

\* The errors the manager's methods throw or report
KeysMissingError == <<"Subscription keys are missing">>
\* response.status used where response.statusText is meant
SubscribeFailedStatusCode(s) == <<"Subscription failed: ", ToString(s)>>
SubscribeFailed(s) == <<"Subscription failed: ", statusText(s)>>
UnsubscribeFailed(s) == <<"Unsubscribe failed: ", statusText(s)>>
\* response.status interpolated where response.statusText is meant
NotifyFailedStatusCode(s) == <<"Notification failed: ", ToString(s)>>
NotifyFailed(s) == <<"Notification failed: ", statusText(s)>>
NoDeviceIdsError == <<"No device IDs provided">>
FetchError == <<"Failed to fetch">>
TypeError == <<"Cannot read properties of undefined">>
PlatformError == <<"platform rejected">>
JsonError == <<"Unexpected token">>
StorageError == <<"localStorage is not available">>

\* notify() resolves with { success: true } or { success: false, error }
notifySuccess == [success |-> TRUE]
notifyFailure(e) == [success |-> FALSE, error |-> e]

\* ---------------------------------------------------------- configuration
\* a member the configuration object does not have
Undefined == "undefined"
NoConfig == [serviceWorkerPath |-> Undefined, apiKey |-> Undefined,
             environment |-> Undefined, baseURL |-> Undefined]
Configs ==
  [serviceWorkerPath : {Undefined, "/push-sw.js"}, apiKey : {Undefined, "", "secret"},
   environment : {Undefined, "dev", "prod"},
   baseURL : {Undefined, "https://example.org/pushservice"}]

ProdURL == "https://the-monolith.onrender.com/pushservice"
DevURL == "http://localhost:3000/pushservice"

\* private baseURL = "https://the-monolith.onrender.com/pushservice": the
\* constructor reads neither config.baseURL nor config.environment
\* the base URL taken from the configuration object alone
baseURLFromConfig(cfg) == cfg.baseURL
baseURL(cfg) == ProdURL

\* `${this.baseURL}/api/subscribe` and its two siblings
endpointURL(cfg, e) == <<baseURL(cfg), "/api/", e>>

\* this.serviceWorkerPath = config?.serviceWorkerPath || "/sw.js"
serviceWorkerPath(cfg) ==
  IF cfg.serviceWorkerPath = Undefined THEN "/sw.js" ELSE cfg.serviceWorkerPath

\* getHeaders(): X-API-Key is set only when an apiKey was configured
NoHeaders == [contentType |-> Undefined, xApiKey |-> Undefined]
\* the X-API-Key header never set
getHeadersNoApiKey(cfg) == [contentType |-> "application/json", xApiKey |-> Undefined]
\* if (this.apiKey) headers["X-API-Key"] = this.apiKey: an empty string is
\* falsy and sets no header
getHeaders(cfg) ==
  [contentType |-> "application/json",
   xApiKey |-> IF cfg.apiKey \in {Undefined, ""} THEN Undefined ELSE cfg.apiKey]

\* ------------------------------------------------------------------- Init
\* The state right after `new PushNotificationManager(config)`: the
\* constructor has run getOrCreateDeviceId() on whatever storage held.
Constructed ==
  \E st \in Ids \cup {NoId}, u \in Ids :
    LET r == getOrCreateDeviceId(st, storageOK, u) IN
      /\ stored = r.stored
      /\ deviceId = r.ret

\* no worker active yet, no subscription, no call made
Quiet ==
  /\ swActive = FALSE
  /\ browserSub = "none"
  /\ records = {}
  /\ op = [c \in Calls |-> "idle"]
  /\ pc = [c \in Calls |-> "idle"]
  /\ arg = [c \in Calls |-> NoArg]
  /\ req = [c \in Calls |-> <<>>]
  /\ io = [c \in Calls |-> <<>>]
  /\ resp = [c \in Calls |-> NoResp]
  /\ result = [c \in Calls |-> NoResult]
  /\ uuid = <<>>
  /\ decoded = NoKey
  /\ ev = [e \in Events |-> NoEvent]

\* a manager constructed without a configuration object
Init ==
  /\ storageOK \in BOOLEAN
  /\ hasServiceWorker \in BOOLEAN
  /\ hasPushManager \in BOOLEAN
  /\ hasNotification = TRUE
  /\ permission = "default"
  /\ config = NoConfig
  /\ Quiet
  /\ Constructed

\* the manager on any platform: with or without the Notification API (and
\* then without a permission), in any permission state
Permissions == {"default", "granted", "denied"}
InitSetup ==
  /\ storageOK \in BOOLEAN
  /\ hasServiceWorker \in BOOLEAN
  /\ hasPushManager \in BOOLEAN
  /\ hasNotification \in BOOLEAN
  /\ permission \in IF hasNotification THEN Permissions ELSE {"default"}
  /\ config \in {cfg \in Configs : /\ cfg.apiKey = Undefined
                                    /\ cfg.environment = Undefined
                                    /\ cfg.baseURL = Undefined}
  /\ Quiet
  /\ Constructed

\* a manager constructed with any configuration, on a platform where
\* everything is available
InitConfig ==
  /\ storageOK = TRUE
  /\ hasServiceWorker = TRUE
  /\ hasPushManager = TRUE
  /\ hasNotification = TRUE
  /\ permission = "granted"
  /\ config \in Configs
  /\ Quiet
  /\ Constructed

\* ------------------------------------------------------- call bookkeeping
Idle(c) == pc[c] = "idle"
\* a new call takes the first free slot
Free(c) == Idle(c) /\ \A d \in Calls : d < c => ~Idle(d)
Ended(c) == pc[c] \in {"done", "failed"}

Begin(c, o, a) ==
  /\ op' = [op EXCEPT ![c] = o]
  /\ arg' = [arg EXCEPT ![c] = a]

\* the call resolves with v / rejects with e
Return(c, v) ==
  /\ pc' = [pc EXCEPT ![c] = "done"]
  /\ result' = [result EXCEPT ![c] = Value(v)]

Raise(c, e) ==
  /\ pc' = [pc EXCEPT ![c] = "failed"]
  /\ result' = [result EXCEPT ![c] = Throw(e)]

Goto(c, l) ==
  /\ pc' = [pc EXCEPT ![c] = l]
  /\ UNCHANGED result

\* an entry of io: which platform or network function was called, on what
\* (the URL of a fetch, the path of a registration), and how
Did(f, target, method, headers) ==
  [call |-> f, target |-> target, method |-> method, headers |-> headers]

\* fetch(endpoint, {method: "POST", headers, body}) leaves the page
\* a request that is sent again after the first attempt
SendTwice(c, body) ==
  /\ req' = [req EXCEPT ![c] = Append(Append(@, body), body)]
  /\ io' = [io EXCEPT ![c] =
              Append(Append(@, Did("fetch", endpointURL(config, body.endpoint), "POST",
                                   getHeaders(config))),
                     Did("fetch", endpointURL(config, body.endpoint), "POST",
                         getHeaders(config)))]

Send(c, body) ==
  /\ req' = [req EXCEPT ![c] = Append(@, body)]
  /\ io' = [io EXCEPT ![c] =
              Append(@, Did("fetch", endpointURL(config, body.endpoint), "POST",
                            getHeaders(config)))]

local == <<stored, browserSub>>
setup == <<hasNotification, permission, config>>
env == <<storageOK, hasServiceWorker, hasPushManager, swActive, setup>>
identity == <<deviceId>>
\* state outside the manager object: generateUUID()'s result and the
\* service worker's events
outside == <<uuid, decoded, ev>>

\* no call is in flight and no outcome is waiting to be taken
AllIdle == \A d \in Calls : Idle(d)

\* ------------------------------------------------ getOrCreateDeviceId()
\* The manager's method delegates to the helper; it does not touch
\* this.deviceId.
GetOrCreateDeviceId(c) ==
  /\ Free(c)
  /\ Begin(c, "getOrCreateDeviceId", NoArg)
  /\ \E u \in Ids :
       LET r == getOrCreateDeviceId(stored, storageOK, u) IN
         /\ stored' = r.stored
         /\ Return(c, r.ret)
  /\ UNCHANGED <<deviceId, browserSub, records, env, outside, req, io, resp>>

\* generateUUID(): the platform's generator where there is one, the
\* fallback otherwise
GenerateUUID ==
  /\ \E native \in BOOLEAN, seed \in 0..(RandomRange - 1), step \in 0..(RandomRange - 1) :
       uuid' = IF native THEN NativeUUID ELSE generateUUIDFallback(Draws(seed, step))
  /\ UNCHANGED <<local, records, env, identity, decoded, ev,
                 op, pc, arg, req, io, resp, result>>

\* ------------------------------------------------ urlBase64ToUint8Array()
\* A string is the sequence of its characters; a binary string and a
\* Uint8Array are sequences of numbers.

\* "=".repeat(k)
repeat(ch, k) == [i \in 1..k |-> ch]

\* s.replace(/from/g, to) for a one-character pattern
replaceAll(s, from, to) == [i \in 1..Len(s) |-> IF s[i] = from THEN to ELSE s[i]]

\* the padding count without its outer remainder
paddingLengthNoOuterMod(n) == 4 - (n % 4)

\* the number of "=" appended to a string of n characters
paddingLength(n) == (4 - (n % 4)) % 4

\* the padded string with the URL-safe characters put back to standard ones
toBase64(base64String) ==
  replaceAll(replaceAll(base64String \o repeat("=", paddingLength(Len(base64String))),
                        "-", "+"),
             "_", "/")

\* the value of a base64 character, 0..63
sextet(ch) == (CHOOSE i \in 1..64 : Alphabet[i] = ch) - 1

\* window.atob: whitespace is dropped; one or two trailing "=" of a string
\* whose length is a multiple of 4 are dropped; a remaining length of 1
\* modulo 4 or a character outside the alphabet is an error; every four
\* characters give three bytes, a last group of three gives two and of two
\* gives one.
atob(data) ==
  LET noSpace == SelectSeq(data, LAMBDA ch : ch \notin Whitespace)
      n == Len(noSpace)
      tail == IF n % 4 # 0 \/ n = 0 \/ noSpace[n] # "=" THEN 0
              ELSE IF noSpace[n - 1] = "=" THEN 2 ELSE 1
      d == SubSeq(noSpace, 1, n - tail)
      byte(k) ==
        LET g == 4 * ((k - 1) \div 3)
            j == (k - 1) % 3
        IN  IF j = 0 THEN (sextet(d[g + 1]) * 4 + (sextet(d[g + 2]) \div 16)) % 256
            ELSE IF j = 1 THEN ((sextet(d[g + 2]) % 16) * 16 + (sextet(d[g + 3]) \div 4)) % 256
            ELSE ((sextet(d[g + 3]) % 4) * 64 + sextet(d[g + 4])) % 256
  IN  IF Len(d) % 4 = 1 \/ \E i \in 1..Len(d) : d[i] \notin Range(Alphabet)
        THEN [threw |-> TRUE, rawData |-> <<>>]
        ELSE [threw |-> FALSE, rawData |-> [k \in 1..((Len(d) * 3) \div 4) |-> byte(k)]]

\* The method, with its local variables kept: padding, base64, rawData and
\* the array it returns (none when atob threw).
urlBase64ToUint8Array(base64String) ==
  LET padding == repeat("=", paddingLength(Len(base64String)))
      base64 == toBase64(base64String)
      raw == atob(base64)
  IN  [ step |-> IF raw.threw THEN "threw" ELSE "returned",
        input |-> base64String,
        padding |-> padding,
        base64 |-> base64,
        rawData |-> raw.rawData,
        outputArray |-> [i \in 1..Len(raw.rawData) |-> raw.rawData[i] % 256] ]

UrlBase64ToUint8Array ==
  /\ decoded.step = "given"
  /\ decoded' = urlBase64ToUint8Array(decoded.input)
  /\ UNCHANGED <<local, records, env, identity, uuid, ev,
                 op, pc, arg, req, io, resp, result>>

\* ------------------------------- getOrCreateDeviceId() in several contexts
\* Browsing contexts of one origin share localStorage but run on their own:
\* the getItem and the setItem of one call are two storage steps, between
\* which another context can take its own.  A call slot stands for a context.

\* what localStorage.getItem("push_device_id") gave the call
Item(v) == [kind |-> "item", value |-> v]
\* localStorage threw and the catch block answered
Threw == [kind |-> "threw"]

\* Entry up to and including getItem: a stored identifier is returned at
\* once; a throwing localStorage is caught and a generated one returned.
ContextGetItem(c) ==
  /\ Idle(c)
  /\ Begin(c, "getOrCreateDeviceId", NoArg)
  /\ IF ~storageOK
       THEN /\ resp' = [resp EXCEPT ![c] = Threw]
            /\ \E u \in Ids : Return(c, u)
       ELSE /\ resp' = [resp EXCEPT ![c] = Item(stored)]
            /\ IF stored # NoId THEN Return(c, stored) ELSE Goto(c, "id_write")
  /\ UNCHANGED <<local, records, env, identity, outside, req, io>>

\* generateUUID() and setItem after getItem gave null; a throwing setItem is
\* caught and another generated identifier returned.
ContextSetItem(c) ==
  /\ pc[c] = "id_write"
  /\ \E u \in Ids :
       /\ stored' = IF storageOK THEN u ELSE stored
       /\ Return(c, u)
  /\ resp' = IF storageOK THEN resp ELSE [resp EXCEPT ![c] = Threw]
  /\ UNCHANGED <<browserSub, records, env, identity, outside, op, arg, req, io>>

\* ------------------------------------------------------------ subscribe()
\* Entry up to `await navigator.serviceWorker.ready`.  Without
\* navigator.serviceWorker the property read throws inside the try block.
SubscribeStart(c) ==
  /\ Free(c)
  /\ Begin(c, "subscribe", NoArg)
  /\ IF hasServiceWorker THEN Goto(c, "sub_ready") ELSE Raise(c, TypeError)
  /\ UNCHANGED <<local, records, env, identity, outside, req, io, resp>>

\* serviceWorker.ready has resolved; the key is decoded and
\* registration.pushManager.subscribe(...) is called.
SubscribeReady(c) ==
  /\ pc[c] = "sub_ready"
  /\ swActive
  /\ IF hasPushManager THEN Goto(c, "sub_push") ELSE Raise(c, TypeError)
  /\ UNCHANGED <<local, records, env, identity, outside, op, arg, req, io, resp>>

\* the POST sent without waiting for the platform's subscription
SubscribePushRejectedStillSends(c) ==
  /\ pc[c] = "sub_push"
  /\ Raise(c, PlatformError)
  /\ Send(c, subscriptionData("full", deviceId))
  /\ UNCHANGED <<local, records, env, identity, outside, op, arg, resp>>

\* pushManager.subscribe rejects
SubscribePushRejected(c) ==
  /\ pc[c] = "sub_push"
  /\ Raise(c, PlatformError)
  /\ UNCHANGED <<local, records, env, identity, outside, op, arg, req, io, resp>>

\* a call that finds another subscribe request in flight sends none
SubscribePushResolvedDeduplicated(c) ==
  /\ pc[c] = "sub_push"
  /\ \E fresh \in SubShapes :
       LET shape == IF browserSub = "none" THEN fresh ELSE browserSub IN
         /\ browserSub' = shape
         /\ IF keysMissing(shape)
              THEN Raise(c, KeysMissingError) /\ UNCHANGED <<req, io>>
              ELSE IF \E d \in Calls \ {c} : op[d] = "subscribe" /\ pc[d] = "sub_fetch"
                THEN Return(c, "deduplicated") /\ UNCHANGED <<req, io>>
                ELSE Goto(c, "sub_fetch") /\ Send(c, subscriptionData(shape, deviceId))
  /\ UNCHANGED <<stored, records, env, identity, outside, op, arg, resp>>

\* pushManager.subscribe resolves with the existing subscription or a new
\* one; the keys are checked, the record is built and the POST is sent.
SubscribePushResolved(c) ==
  /\ pc[c] = "sub_push"
  /\ \E fresh \in SubShapes :
       LET shape == IF browserSub = "none" THEN fresh ELSE browserSub IN
         /\ browserSub' = shape
         /\ IF keysMissing(shape)
              THEN Raise(c, KeysMissingError) /\ UNCHANGED <<req, io>>
              ELSE Goto(c, "sub_fetch") /\ Send(c, subscriptionData(shape, deviceId))
  /\ UNCHANGED <<stored, records, env, identity, outside, op, arg, resp>>

\* What the backend stores on a subscribe request it answers with success
backendSubscribe(recs, body) == recs \cup {body.device_id}

\* The fetch settles; on an ok response the body is decoded and returned.
SubscribeResponse(c) ==
  /\ pc[c] = "sub_fetch"
  /\ \E r \in Responses :
       /\ resp' = [resp EXCEPT ![c] = r]
       /\ IF r.kind = "net" THEN Raise(c, FetchError) /\ UNCHANGED records
          ELSE IF ~responseOk(r.status)
            THEN Raise(c, SubscribeFailed(r.status)) /\ UNCHANGED records
          ELSE /\ records' = backendSubscribe(records, req[c][1])
               /\ IF r.json THEN Return(c, r) ELSE Raise(c, JsonError)
  /\ UNCHANGED <<local, env, identity, outside, op, arg, req, io>>

\* ---------------------------------------------------------- unsubscribe()
\* Entry: the target list is resolved and the POST is sent.
UnsubscribeStart(c, a) ==
  /\ Free(c)
  /\ Begin(c, "unsubscribe", a)
  /\ Send(c, unsubscribeBody(idsToUnsubscribe(a, deviceId)))
  /\ Goto(c, "unsub_fetch")
  /\ UNCHANGED <<local, records, env, identity, outside, resp>>

\* What the backend keeps after an unsubscribe request it answers with success
backendUnsubscribe(recs, body) == recs \ Range(body.device_ids)

\* The fetch settles.  Only after an ok, decodable response does the code
\* reach `await navigator.serviceWorker.ready`.
UnsubscribeResponse(c) ==
  /\ pc[c] = "unsub_fetch"
  /\ \E r \in Responses :
       /\ resp' = [resp EXCEPT ![c] = r]
       /\ IF r.kind = "net" THEN Raise(c, FetchError) /\ UNCHANGED records
          ELSE IF ~responseOk(r.status)
            THEN Raise(c, UnsubscribeFailed(r.status)) /\ UNCHANGED records
          ELSE /\ records' = backendUnsubscribe(records, req[c][1])
               /\ IF ~r.json THEN Raise(c, JsonError)
                  ELSE IF ~hasServiceWorker THEN Raise(c, TypeError)
                  ELSE Goto(c, "unsub_ready")
  /\ UNCHANGED <<local, env, identity, outside, op, arg, req, io>>

\* registration taken without awaiting serviceWorker.ready
UnsubscribeReadyNoWait(c) ==
  /\ pc[c] = "unsub_ready"
  /\ IF hasPushManager THEN Goto(c, "unsub_getsub") ELSE Raise(c, TypeError)
  /\ UNCHANGED <<local, records, env, identity, outside, op, arg, req, io, resp>>

\* serviceWorker.ready has resolved; pushManager.getSubscription() is called.
UnsubscribeReady(c) ==
  /\ pc[c] = "unsub_ready"
  /\ swActive
  /\ IF hasPushManager THEN Goto(c, "unsub_getsub") ELSE Raise(c, TypeError)
  /\ UNCHANGED <<local, records, env, identity, outside, op, arg, req, io, resp>>

\* The tail of unsubscribe(): the stored identifier is removed when this
\* device was targeted, then the decoded response is returned.  A throwing
\* localStorage makes the call fail.
UnsubscribeFinish(c) ==
  IF removesDeviceId(arg[c], deviceId)
    THEN IF storageOK
           THEN stored' = NoId /\ Return(c, resp[c])
           ELSE UNCHANGED stored /\ Raise(c, StorageError)
    ELSE UNCHANGED stored /\ Return(c, resp[c])

\* the stored identifier removed before the teardown is known to succeed
UnsubscribeGetSubRejectedClearsId(c) ==
  /\ pc[c] = "unsub_getsub"
  /\ Raise(c, PlatformError)
  /\ stored' = NoId
  /\ UNCHANGED <<browserSub, records, env, identity, outside, op, arg, req, io, resp>>

\* getSubscription() rejects
UnsubscribeGetSubRejected(c) ==
  /\ pc[c] = "unsub_getsub"
  /\ Raise(c, PlatformError)
  /\ UNCHANGED <<local, records, env, identity, outside, op, arg, req, io, resp>>

\* the teardown guarded by the test that guards the storage removal
UnsubscribeGetSubResolvedOnlyWhenTargeted(c) ==
  /\ pc[c] = "unsub_getsub"
  /\ IF browserSub # "none" /\ removesDeviceId(arg[c], deviceId)
       THEN Goto(c, "unsub_teardown") /\ UNCHANGED stored
       ELSE UnsubscribeFinish(c)
  /\ UNCHANGED <<browserSub, records, env, identity, outside, op, arg, req, io, resp>>

\* getSubscription() resolves: with a subscription, subscription.unsubscribe()
\* is called; with null the code runs on to its end.
UnsubscribeGetSubResolved(c) ==
  /\ pc[c] = "unsub_getsub"
  /\ IF browserSub # "none"
       THEN Goto(c, "unsub_teardown") /\ UNCHANGED stored
       ELSE UnsubscribeFinish(c)
  /\ UNCHANGED <<browserSub, records, env, identity, outside, op, arg, req, io, resp>>

\* subscription.unsubscribe() rejects
UnsubscribeTeardownRejected(c) ==
  /\ pc[c] = "unsub_teardown"
  /\ Raise(c, PlatformError)
  /\ UNCHANGED <<local, records, env, identity, outside, op, arg, req, io, resp>>

\* subscription.unsubscribe() resolves: the platform has dropped the
\* subscription; the code runs on to its end.
UnsubscribeTeardownResolved(c) ==
  /\ pc[c] = "unsub_teardown"
  /\ browserSub' = "none"
  /\ UnsubscribeFinish(c)
  /\ UNCHANGED <<records, env, identity, outside, op, arg, req, io, resp>>

\* --------------------------------------------------------------- notify()
\* the length test left out
noDeviceIdsUnchecked(ids) == FALSE

\* if (deviceIds.length === 0) throw new Error("No device IDs provided")
noDeviceIds(ids) == Len(ids) = 0

\* The notify endpoint answers with one entry per device identifier of the
\* request, telling whether the push was delivered: 200 when all were, 207
\* (partial success) with the entries rs otherwise.
Outcomes == {"sent", "failed"}
notifyResponse(r, rs) ==
  [kind |-> r.kind, status |-> r.status, json |-> r.json,
   results |-> IF r.kind = "http" /\ r.status = 207 THEN rs
               ELSE IF r.kind = "http" /\ r.status = 200 /\ r.json
                 THEN [i \in DOMAIN rs |-> "sent"]
               ELSE <<>>]

\* Entry: an empty list fails the precondition, which the catch block turns
\* into a result; otherwise the POST is sent.
NotifyStart(c, ids) ==
  /\ Free(c)
  /\ Begin(c, "notify", [given |-> TRUE, ids |-> ids])
  /\ IF noDeviceIds(ids)
       THEN Return(c, notifyFailure(NoDeviceIdsError)) /\ UNCHANGED <<req, io>>
       ELSE Goto(c, "notify_fetch") /\ Send(c, notifyBody(ids))
  /\ UNCHANGED <<local, records, env, identity, outside, resp>>

\* the catch block returning a bare failure flag for a rejected fetch
notifyResultNoMessage(r) ==
  IF r.kind = "net" THEN [success |-> FALSE]
  ELSE IF ~responseOk(r.status) THEN notifyFailure(NotifyFailed(r.status))
  ELSE notifySuccess

\* response.status === 200 tested where response.ok is meant
notifyResultOnly200(r) ==
  IF r.kind = "net" THEN notifyFailure(FetchError)
  ELSE IF r.status # 200 THEN notifyFailure(NotifyFailed(r.status))
  ELSE notifySuccess

\* The value notify() resolves with once its fetch has settled with r
notifyResult(r) ==
  IF r.kind = "net" THEN notifyFailure(FetchError)
  ELSE IF ~responseOk(r.status) THEN notifyFailure(NotifyFailed(r.status))
  ELSE notifySuccess

\* The fetch settles; the response body is never read.
NotifyResponse(c) ==
  /\ pc[c] = "notify_fetch"
  /\ \E r \in Responses, rs \in [1..Len(arg[c].ids) -> Outcomes] :
       /\ resp' = [resp EXCEPT ![c] = notifyResponse(r, rs)]
       /\ Return(c, notifyResult(notifyResponse(r, rs)))
  /\ UNCHANGED <<local, records, env, identity, outside, op, arg, req, io>>

\* ---------------------------------------------- registerServiceWorker()
\* a platform or network call made by call c is entered in its io
Attempt(c, entry) == io' = [io EXCEPT ![c] = Append(@, entry)]

\* navigator.serviceWorker.register(this.serviceWorkerPath): the entry is
\* made when the statement is executed, whatever comes of it
Register(c) == Attempt(c, Did("register", <<serviceWorkerPath(config)>>, "", NoHeaders))

RegisterError == <<"Failed to register a ServiceWorker">>

\* the catch block throwing an error of its own
registrationErrorWrapped(e) == <<"Service worker registration failed">>
\* catch (error) { console.error(...); throw error; }
registrationError(e) == e

\* Entry up to the await of register(); without navigator.serviceWorker the
\* statement throws at once.
RegisterServiceWorkerStart(c) ==
  /\ Free(c)
  /\ Begin(c, "registerServiceWorker", NoArg)
  /\ Register(c)
  /\ IF hasServiceWorker THEN Goto(c, "reg_wait")
                          ELSE Raise(c, registrationError(TypeError))
  /\ UNCHANGED <<local, records, env, identity, outside, req, resp>>

RegisterServiceWorkerResolved(c) ==
  /\ pc[c] = "reg_wait"
  /\ Return(c, "registration")
  /\ UNCHANGED <<local, records, env, identity, outside, op, arg, req, io, resp>>

RegisterServiceWorkerRejected(c) ==
  /\ pc[c] = "reg_wait"
  /\ Raise(c, registrationError(RegisterError))
  /\ UNCHANGED <<local, records, env, identity, outside, op, arg, req, io, resp>>

\* ---------------------------------------------------- requestPermission()
\* The synchronous head of requestPermission(): it answers at once without
\* the Notification API or with a decided permission, and prompts otherwise.
\* the denied case not short-circuited
needsPromptUnlessGranted(hasN, perm) == hasN /\ perm # "granted"
needsPrompt(hasN, perm) == hasN /\ perm # "granted" /\ perm # "denied"
permissionNow(hasN, perm) == hasN /\ perm = "granted"

\* Notification.requestPermission()
Prompt(c) == Attempt(c, Did("requestPermission", <<>>, "", NoHeaders))

RequestPermissionStart(c) ==
  /\ Free(c)
  /\ Begin(c, "requestPermission", NoArg)
  /\ IF needsPrompt(hasNotification, permission)
       THEN Prompt(c) /\ Goto(c, "perm_prompt")
       ELSE UNCHANGED io /\ Return(c, permissionNow(hasNotification, permission))
  /\ UNCHANGED <<local, records, env, identity, outside, req, resp>>

\* The user answers the prompt (or dismisses it: "default");
\* return permission === "granted"
RequestPermissionPrompted(c) ==
  /\ pc[c] = "perm_prompt"
  /\ \E answer \in Permissions :
       /\ permission' = answer
       /\ Return(c, answer = "granted")
  /\ UNCHANGED <<local, records, storageOK, hasServiceWorker, hasPushManager, swActive,
                 hasNotification, config, identity, outside, op, arg, req, io, resp>>

\* ----------------------------------------------------------- initialize()
\* only the service worker capability tested
isSupportedServiceWorkerOnly(sw, pm) == sw
\* "serviceWorker" in navigator && "PushManager" in window
isSupported(sw, pm) == sw /\ pm

\* the permission outcome dropped
initializeResultAlwaysTrue(hasPermission) == TRUE
\* if (!hasPermission) return false; return true
initializeResult(hasPermission) == hasPermission

\* Entry: the capability check, then registerServiceWorker() up to its await
InitializeStart(c) ==
  /\ Free(c)
  /\ Begin(c, "initialize", NoArg)
  /\ IF isSupported(hasServiceWorker, hasPushManager)
       THEN Register(c) /\ Goto(c, "init_register")
       ELSE UNCHANGED io /\ Return(c, FALSE)
  /\ UNCHANGED <<local, records, env, identity, outside, req, resp>>

\* registerServiceWorker() rejects: nothing in initialize() catches it
InitializeRegisterRejected(c) ==
  /\ pc[c] = "init_register"
  /\ Raise(c, registrationError(RegisterError))
  /\ UNCHANGED <<local, records, env, identity, outside, op, arg, req, io, resp>>

\* registerServiceWorker() resolves: requestPermission() runs up to its await
InitializeRegisterResolved(c) ==
  /\ pc[c] = "init_register"
  /\ IF needsPrompt(hasNotification, permission)
       THEN Prompt(c) /\ Goto(c, "init_prompt")
       ELSE /\ UNCHANGED io
            /\ Return(c, initializeResult(permissionNow(hasNotification, permission)))
  /\ UNCHANGED <<local, records, env, identity, outside, op, arg, req, resp>>

InitializePrompted(c) ==
  /\ pc[c] = "init_prompt"
  /\ \E answer \in Permissions :
       /\ permission' = answer
       /\ Return(c, initializeResult(answer = "granted"))
  /\ UNCHANGED <<local, records, storageOK, hasServiceWorker, hasPushManager, swActive,
                 hasNotification, config, identity, outside, op, arg, req, io, resp>>

\* --------------------------------------------------------- isSubscribed()
\* subscription !== undefined, which null satisfies
isSubscribedResultNotUndefined(sub) == TRUE
\* return subscription !== null
isSubscribedResult(sub) == sub # "none"

\* what getSubscription() settled with
Reported(sub) == [kind |-> "subscription", value |-> sub]
Rejected == [kind |-> "rejected"]

\* Entry up to `await navigator.serviceWorker.ready`; a TypeError is caught
\* and answered with false.
IsSubscribedStart(c) ==
  /\ Free(c)
  /\ Begin(c, "isSubscribed", NoArg)
  /\ IF hasServiceWorker THEN Goto(c, "issub_ready") ELSE Return(c, FALSE)
  /\ UNCHANGED <<local, records, env, identity, outside, req, io, resp>>

IsSubscribedReady(c) ==
  /\ pc[c] = "issub_ready"
  /\ swActive
  /\ IF hasPushManager THEN Goto(c, "issub_getsub") ELSE Return(c, FALSE)
  /\ UNCHANGED <<local, records, env, identity, outside, op, arg, req, io, resp>>

\* getSubscription() resolves with the subscription or null
IsSubscribedResolved(c) ==
  /\ pc[c] = "issub_getsub"
  /\ resp' = [resp EXCEPT ![c] = Reported(browserSub)]
  /\ Return(c, isSubscribedResult(browserSub))
  /\ UNCHANGED <<local, records, env, identity, outside, op, arg, req, io>>

\* getSubscription() rejects: the catch block answers false
IsSubscribedRejected(c) ==
  /\ pc[c] = "issub_getsub"
  /\ resp' = [resp EXCEPT ![c] = Rejected]
  /\ Return(c, FALSE)
  /\ UNCHANGED <<local, records, env, identity, outside, op, arg, req, io>>

\* ------------------------------------------------------------ environment
\* The caller has taken the outcome of an ended call; the slot is free again.
Recycle(c) ==
  /\ Ended(c)
  /\ op' = [op EXCEPT ![c] = "idle"]
  /\ pc' = [pc EXCEPT ![c] = "idle"]
  /\ arg' = [arg EXCEPT ![c] = NoArg]
  /\ req' = [req EXCEPT ![c] = <<>>]
  /\ io' = [io EXCEPT ![c] = <<>>]
  /\ resp' = [resp EXCEPT ![c] = NoResp]
  /\ result' = [result EXCEPT ![c] = NoResult]
  /\ UNCHANGED <<local, records, env, identity, outside>>

\* A service worker registered for the scope becomes active
ServiceWorkerActivates ==
  /\ hasServiceWorker
  /\ ~swActive
  /\ swActive' = TRUE
  /\ UNCHANGED <<local, records, storageOK, hasServiceWorker, hasPushManager,
                 identity, outside, setup, op, pc, arg, req, io, resp, result>>

\* localStorage starts or stops throwing (blocked storage, privacy mode)
StorageChanges ==
  /\ storageOK' = ~storageOK
  /\ UNCHANGED <<local, records, hasServiceWorker, hasPushManager, swActive,
                 identity, outside, setup, op, pc, arg, req, io, resp, result>>

Next ==
  \/ \E c \in Calls : AllIdle /\ GetOrCreateDeviceId(c)
  \/ \E c \in Calls : AllIdle /\ SubscribeStart(c)
  \/ \E c \in Calls : SubscribeReady(c)
  \/ \E c \in Calls : SubscribePushRejected(c)
  \/ \E c \in Calls : SubscribePushResolved(c)
  \/ \E c \in Calls : SubscribeResponse(c)
  \/ \E c \in Calls, a \in UnsubArgs : AllIdle /\ UnsubscribeStart(c, a)
  \/ \E c \in Calls : UnsubscribeResponse(c)
  \/ \E c \in Calls : UnsubscribeReady(c)
  \/ \E c \in Calls : UnsubscribeGetSubRejected(c)
  \/ \E c \in Calls : UnsubscribeGetSubResolved(c)
  \/ \E c \in Calls : UnsubscribeTeardownRejected(c)
  \/ \E c \in Calls : UnsubscribeTeardownResolved(c)
  \/ \E c \in Calls, ids \in IdLists : AllIdle /\ NotifyStart(c, ids)
  \/ \E c \in Calls : NotifyResponse(c)
  \/ \E c \in Calls : AllIdle /\ IsSubscribedStart(c)
  \/ \E c \in Calls : IsSubscribedReady(c)
  \/ \E c \in Calls : IsSubscribedResolved(c)
  \/ \E c \in Calls : IsSubscribedRejected(c)
  \/ \E c \in Calls : AllIdle /\ RegisterServiceWorkerStart(c)
  \/ \E c \in Calls : RegisterServiceWorkerResolved(c)
  \/ \E c \in Calls : RegisterServiceWorkerRejected(c)
  \/ \E c \in Calls : Recycle(c)
  \/ ServiceWorkerActivates
  \/ StorageChanges

Spec == Init /\ [][Next]_vars

\* Setting the manager up: initialize() and the two methods it is made of,
\* on every platform and in every permission state.
NextSetup ==
  \/ \E c \in Calls : AllIdle /\ InitializeStart(c)
  \/ \E c \in Calls : InitializeRegisterRejected(c)
  \/ \E c \in Calls : InitializeRegisterResolved(c)
  \/ \E c \in Calls : InitializePrompted(c)
  \/ \E c \in Calls : AllIdle /\ RequestPermissionStart(c)
  \/ \E c \in Calls : RequestPermissionPrompted(c)
  \/ \E c \in Calls : AllIdle /\ RegisterServiceWorkerStart(c)
  \/ \E c \in Calls : RegisterServiceWorkerResolved(c)
  \/ \E c \in Calls : RegisterServiceWorkerRejected(c)
  \/ \E c \in Calls : Recycle(c)
  \/ ServiceWorkerActivates

SpecSetup == InitSetup /\ [][NextSetup]_vars

\* The manager under every configuration: one call of each method that
\* talks to the backend, with the default target and a one-element list.
NextConfig ==
  \/ \E c \in Calls : AllIdle /\ SubscribeStart(c)
  \/ \E c \in Calls : SubscribeReady(c)
  \/ \E c \in Calls : SubscribePushRejected(c)
  \/ \E c \in Calls : SubscribePushResolved(c)
  \/ \E c \in Calls : SubscribeResponse(c)
  \/ \E c \in Calls : AllIdle /\ UnsubscribeStart(c, NoArg)
  \/ \E c \in Calls : UnsubscribeResponse(c)
  \/ \E c \in Calls : UnsubscribeReady(c)
  \/ \E c \in Calls : UnsubscribeGetSubRejected(c)
  \/ \E c \in Calls : UnsubscribeGetSubResolved(c)
  \/ \E c \in Calls : UnsubscribeTeardownRejected(c)
  \/ \E c \in Calls : UnsubscribeTeardownResolved(c)
  \/ \E c \in Calls : AllIdle /\ NotifyStart(c, <<deviceId>>)
  \/ \E c \in Calls : NotifyResponse(c)
  \/ \E c \in Calls : Recycle(c)
  \/ ServiceWorkerActivates

SpecConfig == InitConfig /\ [][NextConfig]_vars

\* Overlapping calls: subscribe() and unsubscribe() for the own device are
\* started while another call is in flight, on a platform where everything
\* is available, and interleave at their awaits.
InitOverlap ==
  /\ storageOK = TRUE
  /\ hasServiceWorker = TRUE
  /\ hasPushManager = TRUE
  /\ hasNotification = TRUE
  /\ permission = "granted"
  /\ config = NoConfig
  /\ Quiet
  /\ Constructed

NextOverlap ==
  \/ \E c \in Calls : SubscribeStart(c)
  \/ \E c \in Calls : SubscribeReady(c)
  \/ \E c \in Calls : SubscribePushRejected(c)
  \/ \E c \in Calls : SubscribePushResolved(c)
  \/ \E c \in Calls : SubscribeResponse(c)
  \/ \E c \in Calls : UnsubscribeStart(c, NoArg)
  \/ \E c \in Calls : UnsubscribeResponse(c)
  \/ \E c \in Calls : UnsubscribeReady(c)
  \/ \E c \in Calls : UnsubscribeGetSubRejected(c)
  \/ \E c \in Calls : UnsubscribeGetSubResolved(c)
  \/ \E c \in Calls : UnsubscribeTeardownRejected(c)
  \/ \E c \in Calls : UnsubscribeTeardownResolved(c)
  \/ \E c \in Calls : Recycle(c)
  \/ ServiceWorkerActivates

SpecOverlap == InitOverlap /\ [][NextOverlap]_vars

\* Calls made before any service worker is active, one after the other, with
\* the backend holding whatever records earlier sessions left.
InitWaiting ==
  /\ storageOK = TRUE
  /\ hasServiceWorker \in BOOLEAN
  /\ hasPushManager = TRUE
  /\ hasNotification = TRUE
  /\ permission = "granted"
  /\ config = NoConfig
  /\ swActive = FALSE
  /\ browserSub = "none"
  /\ records \in SUBSET Ids
  /\ op = [c \in Calls |-> "idle"]
  /\ pc = [c \in Calls |-> "idle"]
  /\ arg = [c \in Calls |-> NoArg]
  /\ req = [c \in Calls |-> <<>>]
  /\ io = [c \in Calls |-> <<>>]
  /\ resp = [c \in Calls |-> NoResp]
  /\ result = [c \in Calls |-> NoResult]
  /\ uuid = <<>>
  /\ decoded = NoKey
  /\ ev = [e \in Events |-> NoEvent]
  /\ Constructed

NextWaiting ==
  \/ \E c \in Calls : AllIdle /\ SubscribeStart(c)
  \/ \E c \in Calls : SubscribeReady(c)
  \/ \E c \in Calls : SubscribePushRejected(c)
  \/ \E c \in Calls : SubscribePushResolved(c)
  \/ \E c \in Calls : SubscribeResponse(c)
  \/ \E c \in Calls, a \in UnsubArgs : AllIdle /\ UnsubscribeStart(c, a)
  \/ \E c \in Calls : UnsubscribeResponse(c)
  \/ \E c \in Calls : UnsubscribeReady(c)
  \/ \E c \in Calls : UnsubscribeGetSubRejected(c)
  \/ \E c \in Calls : UnsubscribeGetSubResolved(c)
  \/ \E c \in Calls : UnsubscribeTeardownRejected(c)
  \/ \E c \in Calls : UnsubscribeTeardownResolved(c)
  \/ \E c \in Calls : AllIdle /\ IsSubscribedStart(c)
  \/ \E c \in Calls : IsSubscribedReady(c)
  \/ \E c \in Calls : IsSubscribedResolved(c)
  \/ \E c \in Calls : IsSubscribedRejected(c)
  \/ \E c \in Calls : Recycle(c)
  \/ ServiceWorkerActivates

SpecWaiting == InitWaiting /\ [][NextWaiting]_vars

\* Two browsing contexts on empty storage, before any manager exists
InitContexts ==
  /\ storageOK \in BOOLEAN
  /\ hasServiceWorker = TRUE
  /\ hasPushManager = TRUE
  /\ hasNotification = TRUE
  /\ permission = "granted"
  /\ config = NoConfig
  /\ Quiet
  /\ stored = NoId
  /\ deviceId = NoId

NextContexts ==
  \/ \E c \in Calls : ContextGetItem(c)
  \/ \E c \in Calls : ContextSetItem(c)
  \/ \E c \in Calls : Recycle(c)
  \/ StorageChanges

SpecContexts == InitContexts /\ [][NextContexts]_vars

\* Key decoding on its own: a manager with some key to decode
InitBase64 ==
  /\ storageOK = TRUE
  /\ hasServiceWorker = TRUE
  /\ hasPushManager = TRUE
  /\ hasNotification = TRUE
  /\ permission = "granted"
  /\ config = NoConfig
  /\ swActive = FALSE
  /\ browserSub = "none"
  /\ records = {}
  /\ op = [c \in Calls |-> "idle"]
  /\ pc = [c \in Calls |-> "idle"]
  /\ arg = [c \in Calls |-> NoArg]
  /\ req = [c \in Calls |-> <<>>]
  /\ io = [c \in Calls |-> <<>>]
  /\ resp = [c \in Calls |-> NoResp]
  /\ result = [c \in Calls |-> NoResult]
  /\ uuid = <<>>
  /\ decoded \in {Given(key) : key \in Keys}
  /\ ev = [e \in Events |-> NoEvent]
  /\ Constructed

NextBase64 == UrlBase64ToUint8Array

SpecBase64 == InitBase64 /\ [][NextBase64]_vars

\* Identifier generation on its own
NextUUID == GenerateUUID

SpecUUID == InitOverlap /\ [][NextUUID]_vars

\* The service worker on its own: push and click events, which may overlap
NextWorker ==
  \/ \E e \in Events, body \in Bodies, now \in Times : PushEvent(e, body, now)
  \/ \E e \in Events, ndata \in NotificationData : NotificationClick(e, ndata)
  \/ \E e \in Events : PromiseSettles(e)
  \/ \E e \in Events : EventOver(e)

SpecWorker == InitOverlap /\ [][NextWorker]_vars

\* ===================================================================
\* Properties
\* ===================================================================
\* the step in which call c moves on / in which it ends
Steps(c) == pc'[c] # pc[c]
Ends(c) == pc[c] \notin {"idle", "done", "failed"} /\ pc'[c] \in {"done", "failed"}
Starts(c, o) == pc[c] = "idle" /\ op'[c] = o

\* the fetch of call c was answered with a success status and a JSON body
BackendOk(r) == r.kind = "http" /\ r.status \in 200..299 /\ r.json
\* the fetch of call c failed: network error or non-success status
BackendFailed(r) == r.kind = "net" \/ (r.kind = "http" /\ r.status \notin 200..299)

\* C1: getOrCreateDeviceId() is an idempotent read-through.  While storage
\* works, every call returns the identifier storage holds when the call has
\* returned, a stored identifier is returned as it is, and no step of the
\* program replaces a stored identifier by another one (it can only be
\* removed).  Hence all calls between two removals return one identifier,
\* and after the first of them storage holds exactly it.
C1_IdempotentReadThrough ==
  [][ /\ (stored # NoId /\ stored' # NoId => stored' = stored)
      /\ \A c \in Calls :
           Starts(c, "getOrCreateDeviceId") /\ storageOK =>
             /\ pc'[c] = "done"
             /\ stored' # NoId
             /\ result'[c] = Value(stored')
             /\ (stored # NoId => stored' = stored) ]_vars

\* a call after the constructor's returned the constructor's identifier,
\* which storage holds
C1_Witness ==
  \E c \in Calls :
    /\ op[c] = "getOrCreateDeviceId" /\ pc[c] = "done"
    /\ storageOK
    /\ result[c] = Value(deviceId)
    /\ stored = deviceId

\* C2: the step that completes an unsubscribe call successfully removes the
\* stored identifier if and only if this.deviceId is in the list the call
\* sent to the backend; no other step of an unsubscribe call touches storage.
C2_StorageClearedIffTargeted ==
  [][ \A c \in Calls :
        op'[c] = "unsubscribe" /\ Steps(c) =>
          IF pc'[c] = "done" /\ deviceId \in Range(req[c][1].device_ids)
            THEN stored' = NoId
            ELSE stored' = stored ]_vars

\* an unsubscribe with a two-element list that does not hold the local
\* identifier has succeeded and the identifier is still stored
C2_Witness ==
  \E c \in Calls :
    /\ op[c] = "unsubscribe" /\ pc[c] = "done"
    /\ arg[c].given /\ Len(arg[c].ids) = 2
    /\ deviceId \notin Range(arg[c].ids)
    /\ stored = deviceId

\* C3: an unsubscribe call sends exactly one request, to the unsubscribe
\* endpoint; its device_ids is the one-element list of this.deviceId when
\* the argument is omitted, and the explicit list as given otherwise.
C3_DefaultTargetsOwnId ==
  \A c \in Calls :
    op[c] = "unsubscribe" =>
      /\ Len(req[c]) = 1
      /\ req[c][1].endpoint = "unsubscribe"
      /\ req[c][1].device_ids = IF arg[c].given THEN arg[c].ids ELSE <<deviceId>>

C3_Witness ==
  \E c \in Calls :
    /\ op[c] = "unsubscribe" /\ ~arg[c].given
    /\ req[c] = <<[endpoint |-> "unsubscribe", device_ids |-> <<deviceId>>]>>

\* C4: when the backend call of unsubscribe fails, the call ends there with
\* an error, and neither that step nor the call's entry has touched the
\* browser subscription or the stored identifier.
C4_BackendFailureNoTeardown ==
  [][ \A c \in Calls :
        /\ Starts(c, "unsubscribe") => UNCHANGED <<browserSub, stored>>
        /\ (pc[c] = "unsub_fetch" /\ Steps(c) /\ BackendFailed(resp'[c])) =>
             /\ pc'[c] = "failed"
             /\ result'[c].kind = "throw"
             /\ UNCHANGED <<browserSub, stored>> ]_vars

\* an unsubscribe of this device failed on a 500 while the browser
\* subscription and the stored identifier are in place
C4_Witness ==
  \E c \in Calls :
    /\ op[c] = "unsubscribe" /\ pc[c] = "failed"
    /\ resp[c].kind = "http" /\ resp[c].status = 500
    /\ result[c] = Throw(<<"Unsubscribe failed: ", "Internal Server Error">>)
    /\ browserSub # "none"
    /\ stored = deviceId

C6_NoAuthKeyFails ==
  [][ \A c \in Calls :
        /\ pc[c] = "sub_push" /\ Steps(c)
        /\ result'[c] # Throw(PlatformError)
        /\ browserSub' \in {"noAuth", "noKeys"}
        => /\ pc'[c] = "failed"
           /\ result'[c] = Throw(<<"Subscription keys are missing">>)
           /\ req'[c] = <<>> ]_vars

C8_NotifyEmptyList ==
  \A c \in Calls :
    op[c] = "notify" /\ Len(arg[c].ids) = 0 =>
      /\ pc[c] = "done"
      /\ result[c].kind = "value"
      /\ result[c].value.success = FALSE
      /\ "error" \in DOMAIN result[c].value
      /\ Len(result[c].value.error) > 0
      /\ req[c] = <<>>

C8_Witness ==
  \E c \in Calls :
    /\ op[c] = "notify" /\ arg[c].ids = <<>>
    /\ result[c] = Value([success |-> FALSE, error |-> <<"No device IDs provided">>])
    /\ req[c] = <<>>

\* C9: notify() never rejects: it is never in a failed state, every ended
\* call has resolved with a value that has a success flag, and whenever the
\* precondition or the backend call failed the flag is false and an error
\* message is attached.
C9_NotifyNeverThrows ==
  \A c \in Calls :
    op[c] = "notify" =>
      /\ pc[c] # "failed"
      /\ pc[c] = "done" =>
           /\ result[c].kind = "value"
           /\ "success" \in DOMAIN result[c].value
           /\ (Len(arg[c].ids) = 0 \/ BackendFailed(resp[c])) =>
                /\ result[c].value.success = FALSE
                /\ "error" \in DOMAIN result[c].value
                /\ Len(result[c].value.error) > 0

\* notify() resolved with a failure result after a network error
C9_Witness ==
  \E c \in Calls :
    /\ op[c] = "notify" /\ pc[c] = "done"
    /\ resp[c].kind = "net"
    /\ result[c].kind = "value"
    /\ result[c].value.success = FALSE

\* the backend answered a notify for two devices with 207, one entry
\* delivered and one failed
PartialSuccess(c) ==
  /\ op[c] = "notify" /\ pc[c] = "done"
  /\ Len(arg[c].ids) = 2
  /\ resp[c].kind = "http" /\ resp[c].status = 207
  /\ Range(resp[c].results) = {"sent", "failed"}

\* C10 as stated: on a partial success notify() resolves with success true
\* and hands the caller the per-device results of the response.
C10_Original ==
  \A c \in Calls :
    PartialSuccess(c) =>
      /\ result[c].value.success = TRUE
      /\ "results" \in DOMAIN result[c].value
      /\ result[c].value.results = resp[c].results

\* C10 amended: on a partial success notify() resolves with success true
\* and nothing else; the per-device results of the response are not in the
\* value the caller gets.
C10_PartialSuccessIsSuccess ==
  \A c \in Calls :
    PartialSuccess(c) =>
      /\ result[c].kind = "value"
      /\ result[c].value.success = TRUE
      /\ DOMAIN result[c].value = {"success"}

C10_Witness ==
  \E c \in Calls :
    /\ PartialSuccess(c)
    /\ arg[c].ids[1] # arg[c].ids[2]
    /\ resp[c].results = <<"sent", "failed">>
    /\ result[c] = Value([success |-> TRUE])

\* the platform and network calls of kind f that call c has made
Made(c, f) == SelectSeq(io[c], LAMBDA e : e.call = f)
\* the step adds a call of kind f to those of call c
Makes(c, f) ==
  /\ Len(io'[c]) = Len(io[c]) + 1
  /\ io'[c][Len(io'[c])].call = f

\* C11: a notify() with a non-empty list resolves with success true exactly
\* when its fetch was answered with a status in 200..299; on any other
\* status it resolves with success false and the error "Notification
\* failed: " followed by the response's status text.
C11_NotifySuccessIffOkStatus ==
  \A c \in Calls :
    op[c] = "notify" /\ pc[c] = "done" /\ Len(arg[c].ids) > 0 =>
      /\ result[c].kind = "value"
      /\ result[c].value.success =
           (resp[c].kind = "http" /\ resp[c].status \in 200..299)
      /\ (resp[c].kind = "http" /\ resp[c].status \notin 200..299) =>
           result[c].value =
             [success |-> FALSE,
              error |-> <<"Notification failed: ", statusText(resp[c].status)>>]

\* a notify for one device was answered with 500 and resolved with the
\* status text in its error
C11_Witness ==
  \E c \in Calls :
    /\ op[c] = "notify" /\ pc[c] = "done"
    /\ Len(arg[c].ids) = 1
    /\ resp[c].kind = "http" /\ resp[c].status = 500
    /\ result[c].value.error = <<"Notification failed: ", statusText(500)>>

\* C12: an initialize() call on a platform without service workers or
\* without the Push API ends in its first step with the value false: it
\* does not throw, makes no registration attempt and no permission prompt,
\* and leaves the permission as it is.
C12_UnsupportedInitializeReturnsFalse ==
  [][ \A c \in Calls :
        Starts(c, "initialize") /\ ~(hasServiceWorker /\ hasPushManager) =>
          /\ pc'[c] = "done"
          /\ result'[c] = Value(FALSE)
          /\ io'[c] = <<>>
          /\ permission' = permission ]_vars

\* initialize() returned false where service workers exist but the Push API
\* does not, having called nothing
C12_Witness ==
  \E c \in Calls :
    /\ op[c] = "initialize" /\ pc[c] = "done"
    /\ hasServiceWorker /\ ~hasPushManager
    /\ result[c] = Value(FALSE)
    /\ io[c] = <<>>

\* C13: a step prompts the user only when the permission is neither granted
\* nor denied.  With a decided permission requestPermission(), and
\* initialize() once its registration has succeeded, end without a prompt
\* and without changing the permission: with true when it is granted, with
\* false when it is denied.
C13_PromptOnlyWhenUndecided ==
  [][ \A c \in Calls :
        /\ Makes(c, "requestPermission") => permission \notin {"granted", "denied"}
        /\ ( /\ \/ Starts(c, "requestPermission")
                \/ /\ op[c] = "initialize" /\ pc[c] = "init_register"
                   /\ pc'[c] \notin {"init_register", "failed"}
             /\ permission \in {"granted", "denied"} ) =>
               /\ pc'[c] = "done"
               /\ result'[c] = Value(permission = "granted")
               /\ io'[c] = io[c]
               /\ permission' = permission ]_vars

\* initialize() registered the worker and returned false on a denied
\* permission without prompting
C13_Witness ==
  \E c \in Calls :
    /\ op[c] = "initialize" /\ pc[c] = "done"
    /\ permission = "denied"
    /\ result[c] = Value(FALSE)
    /\ Len(Made(c, "register")) = 1
    /\ Made(c, "requestPermission") = <<>>

\* C14: an initialize() call whose registration has succeeded returns true
\* if and only if the permission is granted at the step that ends it.  With
\* an undecided permission the step after the registration prompts, so that
\* the call has made the registration and then the prompt, and the answer
\* decides the result.
C14_InitializeTrueIffGranted ==
  [][ \A c \in Calls :
        op[c] = "initialize" =>
          /\ (Ends(c) /\ pc'[c] = "done") => result'[c] = Value(permission' = "granted")
          /\ ( /\ pc[c] = "init_register" /\ pc'[c] \notin {"init_register", "failed"}
               /\ hasNotification /\ permission = "default" ) =>
                 /\ pc'[c] = "init_prompt"
                 /\ Len(io'[c]) = 2
                 /\ io'[c][1].call = "register"
                 /\ io'[c][2].call = "requestPermission" ]_vars

\* initialize() registered, prompted, and returned true after the user
\* granted the permission
C14_Witness ==
  \E c \in Calls :
    /\ op[c] = "initialize" /\ pc[c] = "done"
    /\ Len(io[c]) = 2
    /\ io[c][2].call = "requestPermission"
    /\ permission = "granted"
    /\ result[c] = Value(TRUE)

C16_IsSubscribedReportsPlatform ==
  \A c \in Calls :
    op[c] = "isSubscribed" =>
      /\ pc[c] # "failed"
      /\ pc[c] = "done" =>
           result[c] = Value(resp[c].kind = "subscription" /\ resp[c].value # "none")

\* isSubscribed() resolved with false although a subscription exists,
\* because getSubscription() rejected
C16_Witness ==
  \E c \in Calls :
    /\ op[c] = "isSubscribed" /\ pc[c] = "done"
    /\ resp[c] = Rejected
    /\ browserSub # "none"
    /\ result[c] = Value(FALSE)

\* C17: a getOrCreateDeviceId() call made while localStorage throws ends in
\* its one step with an identifier as its value (it does not throw) and
\* leaves the stored item as it was.
C17_StorageFailureFallsBack ==
  [][ \A c \in Calls :
        Starts(c, "getOrCreateDeviceId") /\ ~storageOK =>
          /\ pc'[c] = "done"
          /\ result'[c].kind = "value"
          /\ result'[c].value \in Ids
          /\ stored' = stored ]_vars

\* with an identifier stored but localStorage throwing, the call returned
\* another identifier and the stored one is still there
C17_Witness ==
  \E c \in Calls :
    /\ op[c] = "getOrCreateDeviceId" /\ pc[c] = "done"
    /\ ~storageOK
    /\ stored # NoId
    /\ result[c].value \in Ids \ {stored}

\* C18: every request goes to an endpoint under the configured base URL:
\* config.baseURL when given, otherwise the development URL when
\* config.environment is "dev", otherwise the production URL.
C18_RequestsUnderConfiguredBase ==
  \A c \in Calls : \A i \in 1..Len(io[c]) :
    io[c][i].call = "fetch" =>
      io[c][i].target[1] =
        IF config.baseURL # Undefined THEN config.baseURL
        ELSE IF config.environment = "dev" THEN DevURL
        ELSE ProdURL

C20_NoRetries ==
  \A c \in Calls :
    /\ Len(req[c]) <= 1
    /\ Len(Made(c, "fetch")) = Len(req[c])
    /\ (op[c] = "registerServiceWorker") =>
         /\ Len(Made(c, "register")) = 1
         /\ Len(io[c]) = 1

\* subscribe() failed on a 500 having sent its one request
C20_Witness ==
  \E c \in Calls :
    /\ op[c] = "subscribe" /\ pc[c] = "failed"
    /\ resp[c].kind = "http" /\ resp[c].status = 500
    /\ Len(Made(c, "fetch")) = 1
    /\ Len(req[c]) = 1

\* the phases of unsubscribe() after an ok, decoded backend answer
Teardown == {"unsub_ready", "unsub_getsub", "unsub_teardown"}

\* C23: an unsubscribe() call enters its local teardown only with its one
\* request answered successfully by the backend.  When the call fails
\* after that answer (the service worker or push manager is missing,
\* getSubscription() or subscription.unsubscribe() rejects, or the storage
\* removal throws), it fails by throwing, the backend still holds none of
\* the targeted identifiers, and the stored identifier is left in place.
C23_BackendFirstNoRollback ==
  [][ \A c \in Calls :
        op'[c] = "unsubscribe" =>
          /\ pc'[c] \in Teardown =>
               /\ Len(req'[c]) = 1
               /\ BackendOk(resp'[c])
          /\ (Steps(c) /\ pc'[c] = "failed" /\ BackendOk(resp'[c])) =>
               /\ result'[c].kind = "throw"
               /\ Range(req'[c][1].device_ids) \cap records' = {}
               /\ stored' = stored ]_vars

\* the backend removed this device, getSubscription() or unsubscribe() of
\* the platform then rejected: the call failed, the identifier is still
\* stored and the browser subscription still exists
C23_Witness ==
  \E c \in Calls :
    /\ op[c] = "unsubscribe" /\ pc[c] = "failed"
    /\ BackendOk(resp[c])
    /\ result[c] = Throw(PlatformError)
    /\ stored = deviceId
    /\ deviceId \notin records
    /\ browserSub # "none"

\* C24: a subscribe() call sends its request in the step in which the
\* platform's subscribe resolves, with a subscription then in place, and in
\* no other step.  A call that fails before (no service worker, no push
\* manager, the platform's subscribe rejecting) fails by throwing and has
\* sent nothing.
C24_SubscribeSendsAfterPlatform ==
  [][ \A c \in Calls :
        op'[c] = "subscribe" =>
          /\ req'[c] # req[c] =>
               /\ pc[c] = "sub_push"
               /\ browserSub' # "none"
               /\ Len(req'[c]) = 1
          /\ (Steps(c) /\ pc'[c] = "failed" /\ pc[c] \in {"idle", "sub_ready", "sub_push"}) =>
               /\ result'[c].kind = "throw"
               /\ req'[c] = <<>>
               /\ \A i \in 1..Len(io'[c]) : io'[c][i].call # "fetch" ]_vars

\* subscribe() failed on the platform's rejection, without a subscription
\* and without a request
C24_Witness ==
  \E c \in Calls :
    /\ op[c] = "subscribe" /\ pc[c] = "failed"
    /\ result[c] = Throw(PlatformError)
    /\ browserSub = "none"
    /\ req[c] = <<>>

\* C28: every backend request is a POST with Content-Type application/json;
\* it carries X-API-Key exactly when the configuration holds a (non-empty)
\* API key, and then with that key as its value.
C28_RequestHeaders ==
  \A c \in Calls : \A i \in 1..Len(io[c]) :
    io[c][i].call = "fetch" =>
      /\ io[c][i].method = "POST"
      /\ io[c][i].headers.contentType = "application/json"
      /\ io[c][i].headers.xApiKey =
           IF config.apiKey \in {Undefined, ""} THEN Undefined ELSE config.apiKey

\* a manager configured with an API key has sent a notify request carrying it
C28_Witness ==
  \E c \in Calls :
    /\ config.apiKey = "secret"
    /\ op[c] = "notify"
    /\ Len(io[c]) = 1
    /\ io[c][1].target = <<ProdURL, "/api/", "notify">>
    /\ io[c][1].headers.xApiKey = "secret"

\* C29: whenever subscribe() sends its request, or unsubscribe() sends one
\* for its default target, the identifier in the request is the one then
\* persisted in storage.
C29_SentIdIsStoredId ==
  [][ \A c \in Calls :
        req'[c] # req[c] /\ Len(req'[c]) = 1 =>
          /\ op'[c] = "subscribe" => req'[c][1].device_id = stored
          /\ (op'[c] = "unsubscribe" /\ ~arg'[c].given) =>
               req'[c][1].device_ids = <<stored>> ]_vars

\* C21: overlapping subscribe() calls are not deduplicated.  Whatever the
\* other call is doing, a subscribe() call whose service worker is ready
\* asks the push manager for a subscription, and when the platform answers
\* with usable keys the call sends its own request, which carries the
\* manager's device identifier.
C21_OverlappingSubscribesBothSend ==
  [][ \A c \in Calls :
        op[c] = "subscribe" /\ Steps(c) =>
          /\ (pc[c] = "sub_ready" /\ hasPushManager) => pc'[c] = "sub_push"
          /\ (pc[c] = "sub_push" /\ ~keysMissing(browserSub')) =>
               /\ pc'[c] \in {"sub_fetch", "failed"}
               /\ pc'[c] = "sub_fetch" =>
                    /\ Len(req'[c]) = 1
                    /\ req'[c][1].endpoint = "subscribe"
                    /\ req'[c][1].device_id = deviceId
                    /\ Len(io'[c]) = 1 /\ io'[c][1].call = "fetch" ]_vars

\* two subscribe() calls are in flight, each with its own POST to the
\* subscribe endpoint, and the two requests carry the same device_id
C21_Witness ==
  /\ \A c \in Calls :
       /\ op[c] = "subscribe" /\ pc[c] = "sub_fetch"
       /\ Len(req[c]) = 1
       /\ io[c][1].target = <<ProdURL, "/api/", "subscribe">>
  /\ req[1][1].device_id = req[2][1].device_id

\* C30: when a subscribe() and an unsubscribe() for the own device have both
\* completed successfully, the backend holds a record for the device if and
\* only if a browser subscription exists.
C30_OverlapEndsConsistent ==
  \A c, d \in Calls :
    ( /\ op[c] = "subscribe" /\ pc[c] = "done"
      /\ op[d] = "unsubscribe" /\ pc[d] = "done"
      /\ ~arg[d].given ) =>
        (deviceId \in records <=> browserSub # "none")

\* C22: every identifier the fallback of generateUUID() produces has 36
\* characters, hyphens at positions 9, 14, 19 and 24, the version digit 4
\* at position 15, one of 8, 9, a, b at position 20 whatever value was
\* drawn for it, and hexadecimal digits everywhere else.
C22_FallbackIsUUIDv4 ==
  (uuid # <<>> /\ uuid # NativeUUID) =>
    /\ Len(uuid) = 36
    /\ \A i \in {9, 14, 19, 24} : uuid[i] = "-"
    /\ uuid[15] = "4"
    /\ uuid[20] \in {"8", "9", "a", "b"}
    /\ \A i \in (1..36) \ {9, 14, 19, 24} : uuid[i] \in Range(HexDigits)

\* a fallback identifier whose variant digit came from the drawn value 15:
\* the draws 12, 13, 14, ... put c and d first and b at position 20
C22_Witness ==
  /\ Len(uuid) = 36
  /\ uuid[1] = "c" /\ uuid[2] = "d"
  /\ uuid[20] = "b"

\* the push events for which a descriptor was built, their parsed message
\* and their descriptor
Displayed(e) == ev[e].kind = "push" /\ Len(ev[e].calls) > 0
MessageOf(e) == ev[e].input.fields
OptionsOf(e) == ev[e].calls[1].options
\* the event is alive exactly as long as the promise of its last call is
\* pending
KeptAlive(e) ==
  /\ ev[e].pending => ev[e].phase = "extended"
  /\ ev[e].phase = "finished" => ~ev[e].pending

\* C25: on every push event the handler calls showNotification() exactly
\* once, and the event is not finished while that call's promise is pending.
C25_OneDisplayPerPush ==
  \A e \in Events :
    ev[e].kind = "push" =>
      /\ Len(ev[e].calls) = 1
      /\ ev[e].calls[1].call = "showNotification"
      /\ KeptAlive(e)

\* C26 as stated: every member present in the message is passed through,
\* the named defaults stand in for absent members, and two events with the
\* same message get the same descriptor.
C26_Original ==
  \A e \in Events :
    Displayed(e) =>
      /\ \A f \in Fields :
           MessageOf(e)[f].type # "undefined" => OptionsOf(e)[f] = MessageOf(e)[f]
      /\ MessageOf(e).title.type = "undefined" => OptionsOf(e).title = Str("Notification")
      /\ \A f \in {"requireInteraction", "silent", "renotify"} :
           MessageOf(e)[f].type = "undefined" => OptionsOf(e)[f] = Bool(FALSE)
      /\ MessageOf(e).dir.type = "undefined" => OptionsOf(e).dir = Str("auto")
      /\ MessageOf(e).data.type = "undefined" => OptionsOf(e).data = EmptyObject
      /\ MessageOf(e).actions.type = "undefined" => OptionsOf(e).actions = Arr(<<>>)
      /\ \A d \in Events :
           (Displayed(d) /\ ev[d].input = ev[e].input) => OptionsOf(d) = OptionsOf(e)

\* what stands in for a member that is absent or falsy
C26_Default(f, v, now) ==
  CASE f = "title" -> Str("Notification")
    [] f = "body" -> Str("")
    [] f = "icon" -> Str("/icon-192x192.png")
    [] f = "badge" -> Str("/badge-72x72.png")
    [] f \in {"requireInteraction", "silent", "renotify"} -> Bool(FALSE)
    [] f = "timestamp" -> Num(now)
    [] f = "lang" -> Str("en")
    [] f = "dir" -> Str("auto")
    [] f = "data" -> EmptyObject
    [] f = "actions" -> Arr(<<>>)
    [] OTHER -> v

\* C26: the descriptor of a push event depends only on the event's message
\* and the time of the event.  A member with a truthy value is passed
\* through; an absent or falsy member gets its default (the time of the
\* event for timestamp), except image, tag and vibrate, which are passed as
\* they are.  Two events with the same message at the same time get the
\* same descriptor, whatever was handled before.
C26_DescriptorFromMessageAndTime ==
  \A e \in Events :
    Displayed(e) =>
      /\ \A f \in Fields :
           OptionsOf(e)[f] =
             IF truthy(MessageOf(e)[f]) THEN MessageOf(e)[f]
             ELSE C26_Default(f, MessageOf(e)[f], ev[e].now)
      /\ ev[e].calls[1].title = OptionsOf(e).title
      /\ \A d \in Events :
           (Displayed(d) /\ ev[d].input = ev[e].input /\ ev[d].now = ev[e].now) =>
             OptionsOf(d) = OptionsOf(e)

\* two push events carried the same message with an empty title and no
\* timestamp: both are shown as "Notification", with different timestamps
C26_Witness ==
  /\ Displayed(1) /\ Displayed(2)
  /\ ev[1].input = ev[2].input
  /\ MessageOf(1).title = Str("")
  /\ OptionsOf(1).title = Str("Notification")
  /\ OptionsOf(1).timestamp # OptionsOf(2).timestamp

\* C27: the handler of a notification click closes the notification and
\* then calls openWindow(), with the url of the notification's data when
\* there is a non-empty one and with "/" otherwise; the event is not
\* finished while the promise of openWindow() is pending.
C27_ClickClosesThenOpens ==
  \A e \in Events :
    ev[e].kind = "notificationclick" =>
      /\ Len(ev[e].calls) = 2
      /\ ev[e].calls[1] = Close
      /\ ev[e].calls[2].call = "openWindow"
      /\ ev[e].calls[2].url =
           IF ev[e].input.type = "object" /\ ev[e].input.url.type = "string"
                /\ ev[e].input.url.s # ""
             THEN ev[e].input.url
             ELSE Str("/")
      /\ KeptAlive(e)

\* a click on a notification without data opened the site root, and the
\* event ended when the open request had settled
C27_Witness ==
  \E e \in Events :
    /\ ev[e].kind = "notificationclick"
    /\ ev[e].input = JsNull
    /\ ev[e].calls = <<Close, OpenWindow(Str("/"))>>
    /\ ev[e].phase = "finished"

\* C33: a push event whose body is present but not JSON makes the handler
\* throw before any platform call: nothing is shown for the event, no
\* promise is pending and the event's lifetime is never extended.
C33_BadBodyShowsNothing ==
  \A e \in Events :
    (ev[e].kind = "push" /\ ev[e].input.kind = "text") =>
      /\ ev[e].calls = <<>>
      /\ ev[e].phase = "threw"
      /\ ~ev[e].pending

\* a push event with a text body was handled next to one with a JSON body:
\* the first showed nothing, the second is being displayed
C33_Witness ==
  \E e, d \in Events :
    /\ ev[e].kind = "push" /\ ev[e].input.kind = "text"
    /\ ev[e].phase = "threw"
    /\ ev[d].kind = "push" /\ ev[d].input.kind = "json"
    /\ Len(ev[d].calls) = 1

\* C31 as stated: while no service worker is active, no subscribe(),
\* unsubscribe() or isSubscribed() call has completed.
C31_Original ==
  \A c \in Calls :
    (op[c] \in {"subscribe", "unsubscribe", "isSubscribed"} /\ ~swActive) =>
      pc[c] \notin {"done", "failed"}

\* C31: as long as no service worker is active, on a platform with service
\* workers a subscribe() or isSubscribed() call stays at its wait for the
\* worker, and an unsubscribe() call is waiting for the backend, has failed
\* on the backend's answer, or stays at its wait for the worker with the
\* backend having removed the targeted records; no step of it touches the
\* browser subscription or the stored identifier.  On a platform without
\* service workers subscribe() has thrown, isSubscribed() has returned
\* false, and unsubscribe() throws once the backend has answered.
C31_WaitsForServiceWorker ==
  [][ \A c \in Calls :
        ~swActive' =>
          /\ op'[c] = "subscribe" =>
               pc'[c] = IF hasServiceWorker THEN "sub_ready" ELSE "failed"
          /\ op'[c] = "isSubscribed" =>
               IF hasServiceWorker THEN pc'[c] = "issub_ready"
               ELSE pc'[c] = "done" /\ result'[c] = Value(FALSE)
          /\ op'[c] = "unsubscribe" =>
               /\ pc'[c] \in {"unsub_fetch", "failed"}
                    \cup (IF hasServiceWorker THEN {"unsub_ready"} ELSE {})
               /\ pc'[c] = "unsub_ready" =>
                    /\ BackendOk(resp'[c])
                    /\ Range(req'[c][1].device_ids) \cap records' = {}
               /\ (pc'[c] = "failed" /\ hasServiceWorker) => ~BackendOk(resp'[c])
               /\ stored' = stored
               /\ browserSub' = browserSub ]_vars

\* an unsubscribe() for the own device waits for a service worker: the
\* backend has dropped this device's record and kept the other one, and the
\* identifier is still stored
C31_Witness ==
  \E c \in Calls :
    /\ op[c] = "unsubscribe" /\ pc[c] = "unsub_ready"
    /\ ~swActive
    /\ ~arg[c].given
    /\ records = Ids \ {deviceId}
    /\ stored = deviceId

\* C32: when two contexts have each read empty storage, written to it without
\* a storage failure and completed their getOrCreateDeviceId() call, both
\* calls returned the same identifier, and it is the one storage holds.
C32_ConcurrentCallsAgree ==
  \A c, d \in Calls :
    ( /\ op[c] = "getOrCreateDeviceId" /\ pc[c] = "done" /\ resp[c] = Item(NoId)
      /\ op[d] = "getOrCreateDeviceId" /\ pc[d] = "done" /\ resp[d] = Item(NoId) ) =>
        /\ result[c] = result[d]
        /\ result[c] = Value(stored)

\* C34: a urlBase64ToUint8Array() call on a key of n characters appends
\* exactly (4 - n mod 4) mod 4 "=" characters, which is the least count that
\* makes the padded length a multiple of 4; the string handed to atob is the
\* padded key with every "-" turned into "+" and every "_" into "/" and every
\* other character as it was; and the array returned has one byte per
\* character of the decoded string, in the same order.
C34_PaddingSubstitutionBytes ==
  decoded.step \in {"returned", "threw"} =>
    LET n == Len(decoded.input)
        k == Len(decoded.padding)
        padded == decoded.input \o decoded.padding
    IN  /\ k = (4 - (n % 4)) % 4
        /\ \A i \in 1..k : decoded.padding[i] = "="
        /\ (n + k) % 4 = 0
        /\ \A j \in 0..(k - 1) : (n + j) % 4 # 0
        /\ Len(decoded.base64) = n + k
        /\ \A i \in 1..(n + k) :
             decoded.base64[i] = CASE padded[i] = "-" -> "+"
                                   [] padded[i] = "_" -> "/"
                                   [] OTHER -> padded[i]
        /\ Len(decoded.outputArray) = Len(decoded.rawData)
        /\ \A i \in 1..Len(decoded.rawData) :
             decoded.outputArray[i] = decoded.rawData[i]

\* C34 witness: the key "-_B" was padded with one "=", handed to atob as
\* "+/B=" and decoded to the two bytes 251 and 240.
C34_Witness ==
  /\ decoded.step = "returned"
  /\ decoded.input = <<"-", "_", "B">>
  /\ decoded.padding = <<"=">>
  /\ decoded.base64 = <<"+", "/", "B", "=">>
  /\ decoded.outputArray = <<251, 240>>
====
